---- MODULE Spec2Model ----
(***************************************************************************)
(* A model of aims (src/aims/aims.py): the AIMS constructor fetches every  *)
(* feature of an ArcGIS REST map layer: it validates the URL, reads the    *)
(* layer's metadata and record count, plans the pages, requests them       *)
(* (through a thread pool or one after the other) and merges them.         *)
(*                                                                         *)
(* Strings the code takes apart (the URL) are sequences of one-character   *)
(* strings; other strings are opaque values.  Two sessions run over the    *)
(* same inputs and the same service: run "conc" with concurrent=True and   *)
(* run "seq" with concurrent=False.                                        *)
(***************************************************************************)
EXTENDS Integers, Sequences, FiniteSets, Bags, TLC

\* ------------------------------------------------------------------ bounds
\* Longest URL path, in characters.
MaxPathLen == 5
\* Most records the layer holds.
MaxRecords == 3
\* Largest maxRecordCount the layer reports.
MaxPage == 2

\* ----------------------------------------------------------------- strings
Min(a, b) == IF a < b THEN a ELSE b
Max(a, b) == IF a > b THEN a ELSE b

\* The characters URL paths are built from: a separator, a digit, a sign and
\* a letter.
PathChars == {"/", "1", "-", "a"}
Digits == {"0", "1", "2", "3", "4", "5", "6", "7", "8", "9"}

RECURSIVE SeqsUpTo(_, _)
SeqsUpTo(S, n) ==
    IF n = 0 THEN {<<>>}
    ELSE LET shorter == SeqsUpTo(S, n - 1)
         IN  shorter \cup {Append(s, c) : s \in {t \in shorter : Len(t) = n - 1}, c \in S}

\* str.split(sep): the pieces of s between the separators (one piece, the
\* empty one, for the empty string).
RECURSIVE SplitFrom(_, _, _, _)
SplitFrom(s, sep, i, cur) ==
    IF i > Len(s) THEN <<cur>>
    ELSE IF s[i] = sep THEN <<cur>> \o SplitFrom(s, sep, i + 1, <<>>)
    ELSE SplitFrom(s, sep, i + 1, Append(cur, s[i]))

Split(s, sep) == SplitFrom(s, sep, 1, <<>>)

\* sep.join(pieces)
RECURSIVE Join(_, _)
Join(pieces, sep) ==
    IF Len(pieces) = 0 THEN <<>>
    ELSE IF Len(pieces) = 1 THEN pieces[1]
    ELSE pieces[1] \o <<sep>> \o Join(Tail(pieces), sep)

\* int(s) returns (does not raise ValueError): an optional sign, then digits.
\* (Of what int() accepts, PathChars can spell nothing else.)
IntParses(s) ==
    LET body == IF Len(s) > 0 /\ s[1] \in {"-", "+"} THEN Tail(s) ELSE s
    IN  Len(body) > 0 /\ \A i \in 1..Len(body) : body[i] \in Digits

\* seq[:stop], Python's slice: a negative stop counts from the end.
SliceTo(s, stop) ==
    IF stop >= 0 THEN SubSeq(s, 1, Min(stop, Len(s)))
    ELSE SubSeq(s, 1, Max(Len(s) + stop, 0))

\* seq[i] for a negative Python index i.
NegIndex(s, i) == s[Len(s) + i + 1]

\* -------------------------------------------------------------- URL check
Chars_scheme_sep == <<":", "/", "/">>
Chars_Query == <<"/", "Q", "u", "e", "r", "y">>

\* The loop of _validate_url, at Python index i (-1, -2, ... down to
\* -(len-1)): the first segment, from the end, that int() accepts decides.
RECURSIVE FindLayerNumber(_, _, _)
FindLayerNumber(parsed, split_path, i) ==
    IF i <= -1 * Len(split_path)
    THEN [raised |-> TRUE, value |-> <<>>]
    ELSE IF IntParses(NegIndex(split_path, i))
    THEN IF i + 1 = 0
         THEN [raised |-> FALSE,
               value |-> parsed.scheme \o Chars_scheme_sep \o parsed.netloc
                            \o Join(split_path, "/")]
         ELSE [raised |-> FALSE,
               value |-> parsed.scheme \o Chars_scheme_sep \o parsed.netloc
                            \o Join(SliceTo(split_path, i + 1), "/")]
    ELSE FindLayerNumber(parsed, split_path, i - 1)

\* A _validate_url that returns the URL as given when it finds no layer number.
ValidateUrlNoRaise(parsed) ==
    LET res == FindLayerNumber(parsed, Split(parsed.path, "/"), -1)
    IN  IF res.raised
        THEN [raised |-> FALSE,
              value |-> parsed.scheme \o Chars_scheme_sep \o parsed.netloc \o parsed.path]
        ELSE res

\* AIMS._validate_url: the validated URL, or ValueError raised.
ValidateUrl(parsed) ==
    FindLayerNumber(parsed, Split(parsed.path, "/"), -1)

\* urlparse's results for the URLs tried: with a scheme and a host the path
\* is empty or starts with "/"; without them the whole URL is the path.
ParsedUrls ==
    {[scheme |-> <<"h", "t", "t", "p", "s">>, netloc |-> <<"h">>, path |-> p] :
        p \in {s \in SeqsUpTo(PathChars, MaxPathLen) : Len(s) = 0 \/ s[1] = "/"}}
    \cup
    {[scheme |-> <<>>, netloc |-> <<>>, path |-> p] :
        p \in {s \in SeqsUpTo(PathChars, MaxPathLen - 1) : Len(s) > 0 /\ s[1] # "/"}}

\* ------------------------------------------------------------------ inputs
\* The two sessions: AIMS(url, concurrent=True, **kwargs) and
\* AIMS(url, concurrent=False, **kwargs).
Runs == {"conc", "seq"}
Concurrent(r) == r = "conc"

\* The query options __init__ reads from its keyword arguments.
OptionNames ==
    {"where", "text", "objectIds", "geometry", "geometryType", "inSR",
     "spatialRel", "outFields", "outSR"}

\* kwargs.get(name, default)
KwGet(kw, name, default) == IF name \in DOMAIN kw THEN kw[name] ELSE default

\* The value a caller supplies for an option.
Supplied(name) ==
    CASE name = "where" -> "OBJECTID>1"
      [] name = "outFields" -> "OBJECTID"
      [] name = "outSR" -> "3857"
      [] name = "objectIds" -> "1,2"
      [] OTHER -> "x"

\* The keyword arguments tried: none, a where-clause, all nine.
KwargSets == {{}, {"where"}, OptionNames}
KwargChoices == {[n \in S |-> Supplied(n)] : S \in KwargSets}

\* The URLs the full sessions are run on: a layer URL and one without a
\* layer number.
SessionPaths ==
    {<<"/", "a", "/", "1">>, <<"/", "a">>}
SessionUrls ==
    {[scheme |-> <<"h", "t", "t", "p", "s">>, netloc |-> <<"h">>, path |-> p] :
        p \in SessionPaths}

\* --------------------------------------------------------------- the service
\* The layer holds the records 1..n; a where-clause other than 1=1 selects
\* those after the first.
Matching(where, n) ==
    IF where = "1=1" THEN [i \in 1..n |-> i] ELSE [i \in 1..(n - 1) |-> i + 1]

HttpStatuses == {200, 500}

\* A JSON value the code hands to int(): a number or a string.
JInt(v) == [t |-> "int", v |-> v, s |-> <<>>]
JStr(s) == [t |-> "str", v |-> 0, s |-> s]

\* The layer description, complete.
FullDescription(m) ==
    [maxRecordCount |-> JInt(m),
     advancedQueryCapabilities |-> [supportsPagination |-> TRUE],
     fields |-> <<"OBJECTID">>,
     geometryType |-> "esriGeometryPoint"]

DropKey(obj, k) == [x \in DOMAIN obj \ {k} |-> obj[x]]

\* The JSON bodies a description request can return: the complete one, or
\* one lacking a key the code reads.
DescriptionBodies(m) ==
    {FullDescription(m)}
    \cup {DropKey(FullDescription(m), k) : k \in DOMAIN FullDescription(m)}
    \cup {[FullDescription(m) EXCEPT !.advancedQueryCapabilities = [other |-> TRUE]]}

\* The JSON bodies a count request can return.
CountBodies(n) ==
    {[count |-> JInt(n)], [count |-> JStr(<<"a">>)], [error |-> "bad"]}

\* int(x): [raised, value].  A string of digits has its decimal value.
RECURSIVE DecimalValue(_)
DecimalValue(s) ==
    IF Len(s) = 0 THEN 0
    ELSE 10 * DecimalValue(SubSeq(s, 1, Len(s) - 1))
         + (CHOOSE d \in 0..9 : s[Len(s)] = <<"0", "1", "2", "3", "4", "5", "6", "7", "8", "9">>[d + 1])

PyInt(x) ==
    IF x.t = "int" THEN [raised |-> FALSE, value |-> x.v]
    ELSE IF ~IntParses(x.s) THEN [raised |-> TRUE, value |-> 0]
    ELSE IF x.s[1] = "-" THEN [raised |-> FALSE, value |-> 0 - DecimalValue(Tail(x.s))]
    ELSE IF x.s[1] = "+" THEN [raised |-> FALSE, value |-> DecimalValue(Tail(x.s))]
    ELSE [raised |-> FALSE, value |-> DecimalValue(x.s)]

\* An HTTP response: its status, whether its body is JSON, and the body.
Response(status, isJson, body) == [status_code |-> status, isJson |-> isJson, body |-> body]

\* An exception: its type and what it carries.
Exc(type, carries) == [type |-> type, carries |-> carries]

\* The features the service returns for a page request: the matching records
\* from resultOffset on, at most resultRecordCount of them.
PageFeatures(params, n) ==
    LET m == Matching(params.where, n)
        lo == params.resultOffset + 1
        hi == Min(params.resultOffset + params.resultRecordCount, Len(m))
    IN  SubSeq(m, lo, hi)

\* -------------------------------------------------------------------- state
VARIABLES
    url,        \* the URL given, as urlparse returns it
    kwargs,     \* the keyword arguments given
    service,    \* the layer: the count it reports, its maxRecordCount, and
                \* how it has answered each request made so far (it answers
                \* a repeated request the same way)
    pc,         \* where each session stands in __init__
    self,       \* each session's attributes
    tasks,      \* each session's page calls, per plan index
    results,    \* what each page call returned or raised, per plan index
    arrived,    \* the plan indices in the order the page calls ended
    gets,       \* the bag of GET requests each session has issued
    exc,        \* the exception each session ended with, if any
    metadata,   \* _get_metadata's locals, between its two requests
    wire,       \* the GET requests each session has issued and not yet seen
                \* end
    cli         \* the command that constructs each session, if one does:
                \* where it stands, the options it read, the files it
                \* wrote, the lines it echoed

vars == <<url, kwargs, service, pc, self, tasks, results, arrived, gets, exc, metadata, wire, cli>>

\* An unset attribute is the empty tuple; a set one, a tuple of its value.
Unset == <<>>
Some(x) == <<x>>
IsSet(o) == Len(o) = 1
Get(o) == o[1]

NewSelf ==
    [url |-> Unset, query_url |-> Unset, query |-> Unset,
     n_records |-> Unset, max_record_count |-> Unset, schema |-> Unset,
     pagination_supported |-> Unset, geometry_type |-> Unset,
     request_urls |-> Unset, data |-> Unset]

\* The records the layer holds: the count it reports (none for a count <= 0).
Records == Max(service.count, 0)

Fresh ==
    /\ pc = [r \in Runs |-> "start"]
    /\ self = [r \in Runs |-> NewSelf]
    /\ tasks = [r \in Runs |-> <<>>]
    /\ results = [r \in Runs |-> <<>>]
    /\ arrived = [r \in Runs |-> <<>>]
    /\ gets = [r \in Runs |-> EmptyBag]
    /\ exc = [r \in Runs |-> Unset]
    /\ metadata = [r \in Runs |-> Unset]
    /\ wire = [r \in Runs |-> {}]

NoAnswers == <<>>

Services ==
    {[count |-> n, maxRecordCount |-> m, answers |-> NoAnswers] :
        n \in -1..MaxRecords, m \in 1..MaxPage}

\* A session constructed by a library caller: no command.
NoCli == [pc |-> "none", args |-> <<>>, files |-> {}, echoed |-> <<>>]

Init ==
    /\ url \in SessionUrls
    /\ kwargs \in KwargChoices
    /\ service \in Services
    /\ Fresh
    /\ cli = [r \in Runs |-> NoCli]

\* ------------------------------------------------------------------ actions
\* A session has ended: __init__ returned or raised.
Ended(r) == pc[r] \in {"done", "failed"}

\* The caller is through with a session: the constructor raised, or it
\* returned and, under the command, the command ended.
Left(r) == pc[r] = "failed" \/ (pc[r] = "done" /\ cli[r].pc \in {"none", "exited"})

\* The caller constructs the concurrent session, then the sequential one.
Turn(r) == r = "conc" \/ Left("conc")

Fail(r, e) ==
    /\ pc' = [pc EXCEPT ![r] = "failed"]
    /\ exc' = [exc EXCEPT ![r] = Some(e)]

\* The attributes __init__ reads from kwargs, with their defaults.
QueryOf(kw) ==
    [where |-> KwGet(kw, "where", "1=1"),
     text |-> KwGet(kw, "text", ""),
     objectIds |-> KwGet(kw, "objectIds", ""),
     geometry |-> KwGet(kw, "geometry", ""),
     geometryType |-> KwGet(kw, "geometryType", ""),
     inSR |-> KwGet(kw, "inSR", ""),
     spatialRel |-> KwGet(kw, "spatialRel", ""),
     outFields |-> KwGet(kw, "outFields", "*"),
     outSR |-> KwGet(kw, "outSR", "")]

\* __init__, to the first request: validate the URL, derive the query URL,
\* read the keyword arguments.
Validate(r) ==
    /\ Turn(r)
    /\ pc[r] = "start"
    /\ LET v == ValidateUrl(url)
       IN  \/ /\ v.raised
              /\ Fail(r, Exc("ValueError", "Unable to validate URL"))
              /\ UNCHANGED self
           \/ /\ ~v.raised
              /\ self' = [self EXCEPT ![r].url = Some(v.value),
                                      ![r].query_url = Some(v.value \o Chars_Query),
                                      ![r].query = Some(QueryOf(kwargs))]
              /\ pc' = [pc EXCEPT ![r] = "validated"]
              /\ UNCHANGED exc
    /\ UNCHANGED <<url, kwargs, service, tasks, results, arrived, gets, metadata, wire, cli>>

Request(u, params) == [url |-> u, params |-> params]

\* ------------------------------------------------------------- requests.get
\* How a GET ends: get raises, or returns a response.
Raised == [raised |-> TRUE, response |-> Unset]
Returned(resp) == [raised |-> FALSE, response |-> Some(resp)]

FeatureCollectionBody(features) == [type |-> "FeatureCollection", features |-> features]
ErrorBody == [error |-> "Unable to complete operation."]

\* The responses a description request can get.
DescriptionResponses ==
    {Response(st, TRUE, b) : st \in HttpStatuses, b \in DescriptionBodies(service.maxRecordCount)}
    \cup {Response(st, FALSE, [html |-> TRUE]) : st \in HttpStatuses}

\* The responses a count request can get.
CountResponses ==
    {Response(st, TRUE, b) : st \in HttpStatuses, b \in CountBodies(service.count)}
    \cup {Response(st, FALSE, [html |-> TRUE]) : st \in HttpStatuses}

\* The responses a page request can get: the features asked for, or a JSON
\* error body without "features".
PageResponses(req) ==
    {Response(200, TRUE, FeatureCollectionBody(PageFeatures(req.params, Records))),
     Response(200, TRUE, ErrorBody)}

\* The ways get(req) can end: as it ended before for the same request, and
\* else any way a request of its kind can.
GetOutcomes(req) ==
    IF req \in DOMAIN service.answers THEN {service.answers[req]}
    ELSE {Raised} \cup
         {Returned(resp) : resp \in
            IF "resultOffset" \in DOMAIN req.params THEN PageResponses(req)
            ELSE IF "returnCountOnly" \in DOMAIN req.params THEN CountResponses
            ELSE DescriptionResponses}

\* The service has answered req with outcome o.
Answered(req, o) == service' = [service EXCEPT !.answers = (req :> o) @@ @]

DescriptionRequest(r) == Request(Get(self[r].url), [f |-> "json"])

CountRequest(r) ==
    Request(Get(self[r].query_url),
            [returnCountOnly |-> "true", where |-> "1=1", f |-> "json"])

\* _get_metadata: the description request goes out.
SendDescription(r) ==
    /\ Turn(r)
    /\ pc[r] = "validated"
    /\ gets' = [gets EXCEPT ![r] = @ (+) SetToBag({DescriptionRequest(r)})]
    /\ pc' = [pc EXCEPT ![r] = "description_wait"]
    /\ wire' = [wire EXCEPT ![r] = @ \cup {DescriptionRequest(r)}]
    /\ UNCHANGED <<url, kwargs, service, self, tasks, results, arrived, exc, metadata, cli>>

\* What get() raises when the transport fails: requests attaches the request
\* it could not complete.
TransportError(req) == Exc("RequestException", req)

\* _get_metadata, lines 169-177: what it reads from the description
\* response, in the code's order.
ParseDescription(resp) ==
    IF ~resp.isJson THEN [raised |-> TRUE, exc |-> Exc("JSONDecodeError", "body"), value |-> Unset]
    ELSE LET md == resp.body IN
    IF "maxRecordCount" \notin DOMAIN md
    THEN [raised |-> TRUE, exc |-> Exc("KeyError", "maxRecordCount"), value |-> Unset]
    ELSE IF PyInt(md.maxRecordCount).raised
    THEN [raised |-> TRUE, exc |-> Exc("ValueError", "maxRecordCount"), value |-> Unset]
    ELSE IF "advancedQueryCapabilities" \notin DOMAIN md
    THEN [raised |-> TRUE, exc |-> Exc("KeyError", "advancedQueryCapabilities"), value |-> Unset]
    ELSE IF "supportsPagination" \notin DOMAIN md.advancedQueryCapabilities
    THEN [raised |-> TRUE, exc |-> Exc("KeyError", "supportsPagination"), value |-> Unset]
    ELSE IF "fields" \notin DOMAIN md
    THEN [raised |-> TRUE, exc |-> Exc("KeyError", "fields"), value |-> Unset]
    ELSE IF "geometryType" \notin DOMAIN md
    THEN [raised |-> TRUE, exc |-> Exc("KeyError", "geometryType"), value |-> Unset]
    ELSE [raised |-> FALSE, exc |-> Exc("", ""),
          value |-> Some([max_record_count |-> PyInt(md.maxRecordCount).value,
                          supports_pagination |-> md.advancedQueryCapabilities.supportsPagination,
                          schema |-> md.fields,
                          geometry_type |-> md.geometryType])]

\* _get_metadata, line 184: int(total_record_response.json()["count"]).
ParseCount(resp) ==
    IF ~resp.isJson THEN [raised |-> TRUE, exc |-> Exc("JSONDecodeError", "body"), value |-> 0]
    ELSE IF "count" \notin DOMAIN resp.body
    THEN [raised |-> TRUE, exc |-> Exc("KeyError", "count"), value |-> 0]
    ELSE IF PyInt(resp.body.count).raised
    THEN [raised |-> TRUE, exc |-> Exc("ValueError", "count"), value |-> 0]
    ELSE [raised |-> FALSE, exc |-> Exc("", ""), value |-> PyInt(resp.body.count).value]

\* _get_metadata's locals.
Frame(metadata_response, parsed, total_record_response) ==
    [metadata_response |-> metadata_response, parsed |-> parsed,
     total_record_response |-> total_record_response]

\* _get_metadata, line 167: the description request ends: get raises, or
\* returns the response.
RecvDescription(r) ==
    /\ Turn(r)
    /\ pc[r] = "description_wait"
    /\ \E o \in GetOutcomes(DescriptionRequest(r)) :
          /\ Answered(DescriptionRequest(r), o)
          /\ IF o.raised
             THEN /\ Fail(r, TransportError(DescriptionRequest(r)))
                  /\ UNCHANGED metadata
             ELSE /\ metadata' = [metadata EXCEPT ![r] = Some(Frame(o.response, Unset, Unset))]
                  /\ pc' = [pc EXCEPT ![r] = "description_received"]
                  /\ UNCHANGED exc
    /\ wire' = [wire EXCEPT ![r] = @ \ {DescriptionRequest(r)}]
    /\ UNCHANGED <<url, kwargs, self, tasks, results, arrived, gets, cli>>

\* _get_metadata, lines 169-177: the description is read.
ReadDescription(r) ==
    /\ Turn(r)
    /\ pc[r] = "description_received"
    /\ LET p == ParseDescription(Get(Get(metadata[r]).metadata_response))
       IN  IF p.raised
           THEN /\ Fail(r, p.exc)
                /\ metadata' = [metadata EXCEPT ![r] = Unset]
           ELSE /\ metadata' = [metadata EXCEPT ![r] =
                                   Some(Frame(Get(metadata[r]).metadata_response, p.value, Unset))]
                /\ pc' = [pc EXCEPT ![r] = "described"]
                /\ UNCHANGED exc
    /\ UNCHANGED <<url, kwargs, service, self, tasks, results, arrived, gets, wire, cli>>

\* A count request that does not wait for the description request to end.
SendCountEarly(r) ==
    /\ Turn(r)
    /\ pc[r] \in {"description_wait", "described"}
    /\ gets' = [gets EXCEPT ![r] = @ (+) SetToBag({CountRequest(r)})]
    /\ pc' = [pc EXCEPT ![r] = "count_wait"]
    /\ wire' = [wire EXCEPT ![r] = @ \cup {CountRequest(r)}]
    /\ UNCHANGED <<url, kwargs, service, self, tasks, results, arrived, exc, metadata, cli>>

\* _get_metadata, lines 180-183: the count request goes out.
SendCount(r) ==
    /\ Turn(r)
    /\ pc[r] = "described"
    /\ gets' = [gets EXCEPT ![r] = @ (+) SetToBag({CountRequest(r)})]
    /\ pc' = [pc EXCEPT ![r] = "count_wait"]
    /\ wire' = [wire EXCEPT ![r] = @ \cup {CountRequest(r)}]
    /\ UNCHANGED <<url, kwargs, service, self, tasks, results, arrived, exc, metadata, cli>>

\* _get_metadata, lines 180-183: the count request ends: get raises, or
\* returns the response.
RecvCount(r) ==
    /\ Turn(r)
    /\ pc[r] = "count_wait"
    /\ \E o \in GetOutcomes(CountRequest(r)) :
          /\ Answered(CountRequest(r), o)
          /\ IF o.raised
             THEN /\ Fail(r, TransportError(CountRequest(r)))
                  /\ metadata' = [metadata EXCEPT ![r] = Unset]
             ELSE /\ metadata' = [metadata EXCEPT ![r] =
                                     Some(Frame(Get(metadata[r]).metadata_response,
                                                Get(metadata[r]).parsed, o.response))]
                  /\ pc' = [pc EXCEPT ![r] = "count_received"]
                  /\ UNCHANGED exc
    /\ wire' = [wire EXCEPT ![r] = @ \ {CountRequest(r)}]
    /\ UNCHANGED <<url, kwargs, self, tasks, results, arrived, gets, cli>>

\* _get_metadata, lines 184-192, and __init__, lines 62-68: the count is
\* read, the five values are returned and stored.
ReadCount(r) ==
    /\ Turn(r)
    /\ pc[r] = "count_received"
    /\ LET p == ParseCount(Get(Get(metadata[r]).total_record_response))
           md == Get(Get(metadata[r]).parsed)
       IN  IF p.raised
           THEN Fail(r, p.exc) /\ UNCHANGED self
           ELSE /\ self' = [self EXCEPT
                       ![r].n_records = Some(p.value),
                       ![r].max_record_count = Some(md.max_record_count),
                       ![r].schema = Some(md.schema),
                       ![r].pagination_supported = Some(md.supports_pagination),
                       ![r].geometry_type = Some(md.geometry_type)]
                /\ pc' = [pc EXCEPT ![r] = "metadata"]
                /\ UNCHANGED exc
    /\ metadata' = [metadata EXCEPT ![r] = Unset]
    /\ UNCHANGED <<url, kwargs, service, tasks, results, arrived, gets, wire, cli>>

\* range(start, stop, step) for a positive step.
RECURSIVE PyRange(_, _, _)
PyRange(start, stop, step) ==
    IF start >= stop THEN <<>>
    ELSE <<start>> \o PyRange(start + step, stop, step)

\* A plan built with range(0, n_records + 1, max_record_count).
RequestUrlsInclusive(n_records, max_record_count) ==
    LET offsets == PyRange(0, n_records + 1, max_record_count)
    IN  [k \in 1..Len(offsets) |-> <<offsets[k], max_record_count>>]

\* __init__, lines 71-74: the list of (offset, record count) pairs.
RequestUrls(n_records, max_record_count) ==
    LET offsets == PyRange(0, n_records, max_record_count)
    IN  [k \in 1..Len(offsets) |-> <<offsets[k], max_record_count>>]

BuildPlan(r) ==
    /\ Turn(r)
    /\ pc[r] = "metadata"
    /\ self' = [self EXCEPT ![r].request_urls =
                   Some(RequestUrls(Get(self[r].n_records), Get(self[r].max_record_count)))]
    /\ pc' = [pc EXCEPT ![r] = "planned"]
    /\ UNCHANGED <<url, kwargs, service, tasks, results, arrived, gets, exc, metadata, wire, cli>>

\* _make_single_request, lines 202-214: the parameters of a page request.
PageParams(query, pagination_params) ==
    [where |-> query.where,
     text |-> query.text,
     geometry |-> query.geometry,
     geometryType |-> query.geometryType,
     inSR |-> query.inSR,
     spatialRel |-> query.spatialRel,
     outFields |-> query.outFields,
     outSR |-> query.outSR,
     resultOffset |-> pagination_params[1],
     resultRecordCount |-> pagination_params[2],
     f |-> "geojson"]

Plan(r) == Get(self[r].request_urls)

PageRequest(r, k) ==
    Request(Get(self[r].query_url), PageParams(Get(self[r].query), Plan(r)[k]))

\* __init__, lines 77-87: the page calls are handed to the pool
\* (executor.map submits them all) or to map.
Dispatch(r) ==
    /\ Turn(r)
    /\ pc[r] = "planned"
    /\ tasks' = [tasks EXCEPT ![r] = [k \in 1..Len(Plan(r)) |-> "queued"]]
    /\ results' = [results EXCEPT ![r] = [k \in 1..Len(Plan(r)) |-> Unset]]
    /\ pc' = [pc EXCEPT ![r] = "fetching"]
    /\ UNCHANGED <<url, kwargs, service, self, arrived, gets, exc, metadata, wire, cli>>

\* A page call that issues its GET twice (a retry).
StartRequestTwice(r, k) ==
    /\ Turn(r)
    /\ pc[r] = "fetching"
    /\ k \in DOMAIN tasks[r]
    /\ tasks[r][k] = "queued"
    /\ Concurrent(r) \/ \A j \in DOMAIN tasks[r] : j < k <=> tasks[r][j] = "returned"
    /\ tasks' = [tasks EXCEPT ![r][k] = "running"]
    /\ gets' = [gets EXCEPT ![r] = @ (+) SetToBag({PageRequest(r, k)})
                                      (+) SetToBag({PageRequest(r, k)})]
    /\ wire' = [wire EXCEPT ![r] = @ \cup {PageRequest(r, k)}]
    /\ UNCHANGED <<url, kwargs, service, pc, self, results, arrived, exc, metadata, cli>>

\* A page call that does not wait for the calls before it.
StartRequestUnordered(r, k) ==
    /\ Turn(r)
    /\ pc[r] = "fetching"
    /\ k \in DOMAIN tasks[r]
    /\ tasks[r][k] = "queued"
    /\ tasks' = [tasks EXCEPT ![r][k] = "running"]
    /\ gets' = [gets EXCEPT ![r] = @ (+) SetToBag({PageRequest(r, k)})]
    /\ wire' = [wire EXCEPT ![r] = @ \cup {PageRequest(r, k)}]
    /\ UNCHANGED <<url, kwargs, service, pc, self, results, arrived, exc, metadata, cli>>

\* _make_single_request for plan entry k issues its GET.  A pool worker does
\* so for any submitted call; map calls the entries one after the other.
StartRequest(r, k) ==
    /\ Turn(r)
    /\ pc[r] = "fetching"
    /\ k \in DOMAIN tasks[r]
    /\ tasks[r][k] = "queued"
    /\ Concurrent(r) \/ \A j \in DOMAIN tasks[r] : j < k <=> tasks[r][j] = "returned"
    /\ tasks' = [tasks EXCEPT ![r][k] = "running"]
    /\ gets' = [gets EXCEPT ![r] = @ (+) SetToBag({PageRequest(r, k)})]
    /\ wire' = [wire EXCEPT ![r] = @ \cup {PageRequest(r, k)}]
    /\ UNCHANGED <<url, kwargs, service, pc, self, results, arrived, exc, metadata, cli>>

\* The GET of plan entry k ends: get raises or returns the response.  Under
\* map an exception leaves __init__ at once; in the pool it is kept in the
\* call's future.
FinishRequest(r, k) ==
    /\ Turn(r)
    /\ pc[r] \in {"fetching", "aborting"}
    /\ k \in DOMAIN tasks[r]
    /\ tasks[r][k] = "running"
    /\ arrived' = [arrived EXCEPT ![r] = Append(@, k)]
    /\ \E o \in GetOutcomes(PageRequest(r, k)) :
          /\ Answered(PageRequest(r, k), o)
          /\ IF o.raised
             THEN /\ tasks' = [tasks EXCEPT ![r][k] = "raised"]
                  /\ results' = [results EXCEPT ![r][k] = Some(TransportError(PageRequest(r, k)))]
                  /\ IF Concurrent(r)
                     THEN UNCHANGED <<pc, exc>>
                     ELSE Fail(r, TransportError(PageRequest(r, k)))
             ELSE /\ tasks' = [tasks EXCEPT ![r][k] = "returned"]
                  /\ results' = [results EXCEPT ![r][k] = o.response]
                  /\ UNCHANGED <<pc, exc>>
    /\ wire' = [wire EXCEPT ![r] = @ \ {PageRequest(r, k)}]
    /\ UNCHANGED <<url, kwargs, self, gets, metadata, cli>>

\* The pool's results are read in submission order: the first call, in that
\* order, that raised re-raises in __init__, and the calls not yet started
\* are cancelled.
Abort(r) ==
    /\ Turn(r)
    /\ pc[r] = "fetching"
    /\ Concurrent(r)
    /\ \E k \in DOMAIN tasks[r] :
          /\ tasks[r][k] = "raised"
          /\ \A j \in 1..(k - 1) : tasks[r][j] = "returned"
          /\ exc' = [exc EXCEPT ![r] = results[r][k]]
    /\ tasks' = [tasks EXCEPT ![r] =
                    [k \in DOMAIN @ |-> IF @[k] = "queued" THEN "cancelled" ELSE @[k]]]
    /\ pc' = [pc EXCEPT ![r] = "aborting"]
    /\ UNCHANGED <<url, kwargs, service, self, results, arrived, gets, metadata, wire, cli>>

\* Leaving the with block waits for the calls still running; then the
\* exception leaves __init__.
Shutdown(r) ==
    /\ Turn(r)
    /\ pc[r] = "aborting"
    /\ \A k \in DOMAIN tasks[r] : tasks[r][k] # "running"
    /\ pc' = [pc EXCEPT ![r] = "failed"]
    /\ UNCHANGED <<url, kwargs, service, self, tasks, results, arrived, gets, exc, metadata, wire, cli>>

\* The responses in the order the page calls ended.
ResponsesInArrivalOrder(r) ==
    [i \in 1..Len(arrived[r]) |-> Get(results[r][arrived[r][i]])]

\* list(executor.map(...)) and list(map(...)): the responses in the order of
\* the plan.
RawResponses(r) ==
    [k \in 1..Len(tasks[r]) |-> Get(results[r][k])]

\* A gather that goes on once every page call has ended, raised or not.
GatherSettled(r) ==
    /\ Turn(r)
    /\ pc[r] = "fetching"
    /\ \A k \in DOMAIN tasks[r] : tasks[r][k] \in {"returned", "raised"}
    /\ pc' = [pc EXCEPT ![r] = "merging"]
    /\ UNCHANGED <<url, kwargs, service, self, tasks, results, arrived, gets, exc, metadata, wire, cli>>

\* Every page call has returned: _raw_responses is complete.
Gather(r) ==
    /\ Turn(r)
    /\ pc[r] = "fetching"
    /\ \A k \in DOMAIN tasks[r] : tasks[r][k] = "returned"
    /\ pc' = [pc EXCEPT ![r] = "merging"]
    /\ UNCHANGED <<url, kwargs, service, self, tasks, results, arrived, gets, exc, metadata, wire, cli>>

\* resp.json()["features"]: [raised, exc, value].
FeaturesOf(resp) ==
    IF ~resp.isJson THEN [raised |-> TRUE, exc |-> Exc("JSONDecodeError", "body"), value |-> <<>>]
    ELSE IF "features" \notin DOMAIN resp.body
    THEN [raised |-> TRUE, exc |-> Exc("KeyError", "features"), value |-> <<>>]
    ELSE [raised |-> FALSE, exc |-> Exc("", ""), value |-> resp.body.features]

\* The loop of lines 93-94, from index resp on (1-based here).
RECURSIVE ExtendFeatures(_, _, _, _)
ExtendFeatures(raw_responses, resp, stop, features) ==
    IF resp > stop THEN [raised |-> FALSE, exc |-> Exc("", ""), value |-> features]
    ELSE LET f == FeaturesOf(raw_responses[resp])
         IN  IF f.raised THEN f
             ELSE ExtendFeatures(raw_responses, resp + 1, stop, features \o f.value)

\* A merge whose loop stops one response early.
CombineSkipLast(raw_responses) ==
    IF Len(raw_responses) = 0
    THEN [raised |-> TRUE, exc |-> Exc("IndexError", "list index out of range"), value |-> <<>>]
    ELSE LET first == FeaturesOf(raw_responses[1])
         IN  IF first.raised THEN first
             ELSE ExtendFeatures(raw_responses, 2, Len(raw_responses) - 1, first.value)

\* __init__, lines 90-96: the features of the first response, extended by
\* those of each later one.
Combine(raw_responses) ==
    IF Len(raw_responses) = 0
    THEN [raised |-> TRUE, exc |-> Exc("IndexError", "list index out of range"), value |-> <<>>]
    ELSE LET first == FeaturesOf(raw_responses[1])
         IN  IF first.raised THEN first
             ELSE ExtendFeatures(raw_responses, 2, Len(raw_responses), first.value)

\* __init__, lines 89-105: combine the responses; self.data is the first
\* response's JSON holding every feature.
Merge(r) ==
    /\ Turn(r)
    /\ pc[r] = "merging"
    /\ LET m == Combine(RawResponses(r))
       IN  IF m.raised
           THEN Fail(r, m.exc) /\ UNCHANGED self
           ELSE /\ self' = [self EXCEPT ![r].data =
                              Some([RawResponses(r)[1].body EXCEPT !.features = m.value])]
                /\ pc' = [pc EXCEPT ![r] = "done"]
                /\ UNCHANGED exc
    /\ UNCHANGED <<url, kwargs, service, tasks, results, arrived, gets, metadata, wire, cli>>

Next ==
    \E r \in Runs :
        \/ Validate(r)
        \/ SendDescription(r)
        \/ RecvDescription(r)
        \/ ReadDescription(r)
        \/ SendCount(r)
        \/ RecvCount(r)
        \/ ReadCount(r)
        \/ BuildPlan(r)
        \/ Dispatch(r)
        \/ \E k \in 1..(MaxRecords + 1) : StartRequest(r, k) \/ FinishRequest(r, k)
        \/ Abort(r)
        \/ Shutdown(r)
        \/ Gather(r)
        \/ Merge(r)

Spec == Init /\ [][Next]_vars

\* ---------------------------------------------------- URL validation alone
InitUrl ==
    /\ url \in ParsedUrls
    /\ kwargs = [n \in {} |-> ""]
    /\ service = [count |-> 1, maxRecordCount |-> 1, answers |-> NoAnswers]
    /\ Fresh
    /\ cli = [r \in Runs |-> NoCli]

NextUrl == \E r \in Runs : Validate(r) \/ SendDescription(r)

SpecUrl == InitUrl /\ [][NextUrl]_vars

\* ------------------------------------------------------- the planner alone
\* Most records, and largest maxRecordCount, the planner is tried on.
MaxPlanRecords == 12
MaxPlanPage == 5

PlanUrl == [scheme |-> <<"h", "t", "t", "p", "s">>, netloc |-> <<"h">>,
            path |-> <<"/", "a", "/", "1">>]

\* A session whose _get_metadata has returned count n and maxRecordCount m.
SelfWithMetadata(n, m) ==
    [NewSelf EXCEPT
        !.url = Some(ValidateUrl(PlanUrl).value),
        !.query_url = Some(ValidateUrl(PlanUrl).value \o Chars_Query),
        !.query = Some(QueryOf([x \in {} |-> ""])),
        !.n_records = Some(n),
        !.max_record_count = Some(m),
        !.schema = Some(FullDescription(m).fields),
        !.pagination_supported = Some(TRUE),
        !.geometry_type = Some(FullDescription(m).geometryType)]

InitPlan ==
    /\ url = PlanUrl
    /\ kwargs = [x \in {} |-> ""]
    /\ \E n \in 0..MaxPlanRecords, m \in 1..MaxPlanPage :
          /\ service = [count |-> n, maxRecordCount |-> m, answers |-> NoAnswers]
          /\ self = [r \in Runs |-> SelfWithMetadata(n, m)]
    /\ pc = [r \in Runs |-> "metadata"]
    /\ tasks = [r \in Runs |-> <<>>]
    /\ results = [r \in Runs |-> <<>>]
    /\ arrived = [r \in Runs |-> <<>>]
    /\ gets = [r \in Runs |->
                 SetToBag({Request(ValidateUrl(PlanUrl).value, [f |-> "json"]),
                           Request(ValidateUrl(PlanUrl).value \o Chars_Query,
                                   [returnCountOnly |-> "true", where |-> "1=1", f |-> "json"])})]
    /\ exc = [r \in Runs |-> Unset]
    /\ metadata = [r \in Runs |-> Unset]
    /\ wire = [r \in Runs |-> {}]
    /\ cli = [r \in Runs |-> NoCli]

NextPlan == \E r \in Runs : BuildPlan(r)

SpecPlan == InitPlan /\ [][NextPlan]_vars

\* ------------------------------------------------------------- the command
\* cli(url, concurrent, where, out_fields, out_sr, geojson, shapefile,
\* schema): the command is run with -c and then without it, on the same
\* arguments otherwise.

\* str.lower(), on the characters the paths tried are written in.
LowerChar(c) ==
    CASE c = "G" -> "g" [] c = "E" -> "e" [] c = "O" -> "o" [] c = "J" -> "j"
      [] c = "S" -> "s" [] c = "N" -> "n" [] c = "H" -> "h" [] c = "P" -> "p"
      [] OTHER -> c
Lower(str) == [i \in 1..Len(str) |-> LowerChar(str[i])]

\* str.endswith(suffix)
EndsWith(str, suffix) ==
    /\ Len(str) >= Len(suffix)
    /\ SubSeq(str, Len(str) - Len(suffix) + 1, Len(str)) = suffix

Chars_geojson == <<".", "g", "e", "o", "j", "s", "o", "n">>
Chars_shp == <<".", "s", "h", "p">>
Chars_json == <<".", "j", "s", "o", "n">>

\* The values tried for an output option: not given, a path without the
\* extension, a path with it in upper case.
GeojsonArgs == {Unset, Some(<<"o">>), Some(<<"o", ".", "G", "E", "O", "J", "S", "O", "N">>)}
ShapefileArgs == {Unset, Some(<<"o">>), Some(<<"o", ".", "S", "H", "P">>)}
SchemaArgs == {Unset, Some(<<"o">>), Some(<<"o", ".", "J", "S", "O", "N">>)}

\* The keyword arguments the command passes to AIMS (line 46): where as
\* given, out_fields and out_sr at their defaults.
CliKwargs ==
    {[where |-> w, outFields |-> "*", outSR |-> ""] : w \in {"1=1", Supplied("where")}}

\* The command has been called and is constructing its AIMS instance.
CliCalled ==
    [pc |-> "instance",
     args |-> [geojson |-> Unset, shapefile |-> Unset, schema |-> Unset],
     files |-> {}, echoed |-> <<>>]

\* A file on disk, and a line on the terminal.
File(format, path) == [format |-> format, path |-> path]
Echo(text, value) == [text |-> text, value |-> value]

\* Lines 50-54, 64-68, 78-82: the path with the extension appended unless
\* its lower case ends with it.
OutPath(path, extension) ==
    IF EndsWith(Lower(path), extension) THEN path ELSE path \o extension

\* Lines 48-60: the GeoJSON target.
ExportGeojson(r) ==
    /\ Turn(r)
    /\ pc[r] = "done"
    /\ cli[r].pc = "instance"
    /\ \E geojson \in GeojsonArgs :
          cli' = [cli EXCEPT
              ![r].pc = "shapefile",
              ![r].args.geojson = geojson,
              ![r].files = IF IsSet(geojson)
                           THEN @ \cup {File("GeoJSON", OutPath(Get(geojson), Chars_geojson))}
                           ELSE @,
              ![r].echoed = IF IsSet(geojson)
                            THEN Append(@, Echo("GeoJSON saved at",
                                                OutPath(Get(geojson), Chars_geojson)))
                            ELSE @]
    /\ UNCHANGED <<url, kwargs, service, pc, self, tasks, results, arrived, gets, exc,
                   metadata, wire>>

\* Lines 62-74: the Shapefile target.
ExportShapefile(r) ==
    /\ Turn(r)
    /\ cli[r].pc = "shapefile"
    /\ \E shapefile \in ShapefileArgs :
          cli' = [cli EXCEPT
              ![r].pc = "schema",
              ![r].args.shapefile = shapefile,
              ![r].files = IF IsSet(shapefile)
                           THEN @ \cup {File("Shapefile", OutPath(Get(shapefile), Chars_shp))}
                           ELSE @,
              ![r].echoed = IF IsSet(shapefile)
                            THEN Append(@, Echo("Shapefile saved at",
                                                OutPath(Get(shapefile), Chars_shp)))
                            ELSE @]
    /\ UNCHANGED <<url, kwargs, service, pc, self, tasks, results, arrived, gets, exc,
                   metadata, wire>>

\* Lines 76-89: the schema target.  The file is opened at out_schema; the
\* line echoed names schema.
ExportSchema(r) ==
    /\ Turn(r)
    /\ cli[r].pc = "schema"
    /\ \E schema \in SchemaArgs :
          cli' = [cli EXCEPT
              ![r].pc = "summary",
              ![r].args.schema = schema,
              ![r].files = IF IsSet(schema)
                           THEN @ \cup {File("schema", OutPath(Get(schema), Chars_json))}
                           ELSE @,
              ![r].echoed = IF IsSet(schema)
                            THEN Append(@, Echo("Schema saved at", Get(schema)))
                            ELSE @]
    /\ UNCHANGED <<url, kwargs, service, pc, self, tasks, results, arrived, gets, exc,
                   metadata, wire>>

\* Lines 91-92: the closing lines; the count echoed is instance.n_records.
EchoSummary(r) ==
    /\ Turn(r)
    /\ cli[r].pc = "summary"
    /\ cli' = [cli EXCEPT
          ![r].pc = "exited",
          ![r].echoed = Append(Append(@, Echo("Processing complete.", Unset)),
                               Echo("Retreived records", Get(self[r].n_records)))]
    /\ UNCHANGED <<url, kwargs, service, pc, self, tasks, results, arrived, gets, exc,
                   metadata, wire>>

InitCli ==
    /\ url = PlanUrl
    /\ kwargs \in CliKwargs
    /\ service \in Services
    /\ Fresh
    /\ cli = [r \in Runs |-> CliCalled]

NextCli ==
    \E r \in Runs :
        \/ Validate(r)
        \/ SendDescription(r)
        \/ RecvDescription(r)
        \/ ReadDescription(r)
        \/ SendCount(r)
        \/ RecvCount(r)
        \/ ReadCount(r)
        \/ BuildPlan(r)
        \/ Dispatch(r)
        \/ \E k \in 1..(MaxRecords + 1) : StartRequest(r, k) \/ FinishRequest(r, k)
        \/ Abort(r)
        \/ Shutdown(r)
        \/ Gather(r)
        \/ Merge(r)
        \/ ExportGeojson(r)
        \/ ExportShapefile(r)
        \/ ExportSchema(r)
        \/ EchoSummary(r)

SpecCli == InitCli /\ [][NextCli]_vars

\* ------------------------------------------------------------------- claims
\* The page GETs a session has issued.
PageGets(r) == {q \in BagToSet(gets[r]) : "resultOffset" \in DOMAIN q.params}

RECURSIVE Concatenation(_)
Concatenation(lists) ==
    IF Len(lists) = 0 THEN <<>> ELSE lists[1] \o Concatenation(Tail(lists))

RECURSIVE SumOfLengths(_)
SumOfLengths(lists) ==
    IF Len(lists) = 0 THEN 0 ELSE Len(lists[1]) + SumOfLengths(Tail(lists))

\* The features of the response received for plan entry k.
ReceivedFeatures(r, k) == Get(results[r][k]).body.features

\* The merged features of a session that returned.
MergedFeatures(r) == Get(self[r].data).features

\* C1: when a session returns, its merged features are the features of the
\* response to plan entry 1, then those of entry 2, ..., in plan order,
\* whatever the order the responses arrived in; so there are as many as the
\* pages hold together.
C1_MergedInPlanOrder ==
    \A r \in Runs :
        pc[r] = "done" =>
            LET pages == [k \in 1..Len(Plan(r)) |-> ReceivedFeatures(r, k)]
            IN  /\ MergedFeatures(r) = Concatenation(pages)
                /\ Len(MergedFeatures(r)) = SumOfLengths(pages)

\* A concurrent session returned whose last page arrived first, with at
\* least two pages holding features.
C1_Witness ==
    /\ pc["conc"] = "done"
    /\ Len(Plan("conc")) >= 2
    /\ arrived["conc"][1] = Len(Plan("conc"))
    /\ Cardinality({k \in 1..Len(Plan("conc")) : Len(ReceivedFeatures("conc", k)) > 0}) >= 2

\* C2: over the same plan and the same answer to each page request, the
\* concurrent and the sequential session end with the same merged feature
\* collection (or both without one).
C2_ConcurrentEqualsSequential ==
    (/\ Ended("conc") /\ Ended("seq")
     /\ IsSet(self["conc"].request_urls) /\ IsSet(self["seq"].request_urls))
    => /\ Plan("conc") = Plan("seq")
       /\ self["conc"].data = self["seq"].data

\* Both sessions returned, the concurrent one after its pages arrived out of
\* plan order.
C2_Witness ==
    /\ pc["conc"] = "done" /\ pc["seq"] = "done"
    /\ Len(Plan("conc")) >= 2
    /\ arrived["conc"][1] > arrived["conc"][2]
    /\ Len(MergedFeatures("seq")) >= 2

\* The plan entries whose page request the service answered with a failure:
\* get raised, or the response has no feature list.
FailedPages(r) ==
    {k \in 1..Len(Plan(r)) :
        /\ PageRequest(r, k) \in DOMAIN service.answers
        /\ LET o == service.answers[PageRequest(r, k)]
           IN  o.raised \/ FeaturesOf(Get(o.response)).raised}

\* The exception identifies the page at this offset.
CarriesOffset(e, offset) ==
    /\ e.type \in {"RequestException", "FetchAborted"}
    /\ "resultOffset" \in DOMAIN e.carries.params
    /\ e.carries.params.resultOffset = offset

\* A session that ended after one of its page requests failed has failed and
\* holds no feature collection.
PageFailureFailsWithoutCollection ==
    \A r \in Runs :
        (Ended(r) /\ IsSet(self[r].request_urls) /\ FailedPages(r) # {})
        => pc[r] = "failed" /\ ~IsSet(self[r].data)

\* C3: a session one of whose page requests failed fails with an error that
\* carries the offset of a failing page, and holds no feature collection.
C3_PageFailureCarriesOffset ==
    \A r \in Runs :
        (Ended(r) /\ IsSet(self[r].request_urls) /\ FailedPages(r) # {})
        => /\ pc[r] = "failed"
           /\ ~IsSet(self[r].data)
           /\ \E k \in FailedPages(r) : CarriesOffset(Get(exc[r]), Plan(r)[k][1])

\* C4: when the count reported is 0 the plan is the one entry (0,
\* maxRecordCount), one page request is issued, and a session whose page
\* request is answered returns with an empty feature collection.
C4_EmptyServicePlansOnePage ==
    \A r \in Runs :
        (IsSet(self[r].n_records) /\ Get(self[r].n_records) = 0)
        => /\ IsSet(self[r].request_urls)
              => Plan(r) = <<<<0, Get(self[r].max_record_count)>>>>
           /\ (Ended(r) /\ IsSet(self[r].request_urls) /\ FailedPages(r) = {})
              => /\ pc[r] = "done"
                 /\ MergedFeatures(r) = <<>>
                 /\ Cardinality(PageGets(r)) = 1

\* C5: for a count T > 0 and a maxRecordCount M > 0 the plan is (0,M), (M,M),
\* ...: exactly the offsets k*M below T, ascending, ceil(T/M) of them; the
\* ranges [offset, offset + size) are disjoint and contiguous and cover
\* 0..T-1, and no size exceeds M.
C5_PlanCoversRecords ==
    \A r \in Runs :
        (IsSet(self[r].request_urls) /\ Get(self[r].n_records) > 0)
        => LET T == Get(self[r].n_records)
               M == Get(self[r].max_record_count)
               plan == Plan(r)
               Range(k) == plan[k][1]..(plan[k][1] + plan[k][2] - 1)
           IN  /\ Len(plan) = (T + M - 1) \div M
               /\ \A k \in 1..Len(plan) : plan[k] = <<(k - 1) * M, M>>
               /\ {plan[k][1] : k \in 1..Len(plan)} = {o \in 0..(T - 1) : o % M = 0}
               /\ \A j, k \in 1..Len(plan) : j < k => plan[j][1] < plan[k][1]
               /\ \A j, k \in 1..Len(plan) : j # k => Range(j) \cap Range(k) = {}
               /\ \A k \in 1..(Len(plan) - 1) : plan[k + 1][1] = plan[k][1] + plan[k][2]
               /\ \A i \in 0..(T - 1) : \E k \in 1..Len(plan) : i \in Range(k)
               /\ \A k \in 1..Len(plan) : plan[k][2] <= M

\* A plan of three pages or more whose last page overshoots the count.
C5_Witness ==
    /\ pc["conc"] = "planned"
    /\ Len(Plan("conc")) >= 3
    /\ Get(self["conc"].n_records) % Get(self["conc"].max_record_count) # 0

\* A segment that is a non-negative integer: digits only.
IsNonNegativeInteger(seg) == Len(seg) > 0 /\ \A i \in 1..Len(seg) : seg[i] \in Digits

\* C6: the URL a session holds after validation is scheme + host + the path
\* segments up to and including the last one that is a non-negative
\* integer; it ends in that segment, and the query URL is it + "/Query".
C6_BaseUrlEndsInLayerId ==
    \A r \in Runs :
        IsSet(self[r].url) =>
            LET segs == Split(url.path, "/")
                ids == {j \in 1..Len(segs) : IsNonNegativeInteger(segs[j])}
                last == CHOOSE j \in ids : \A i \in ids : i <= j
                base == Get(self[r].url)
                baseSegs == Split(base, "/")
            IN  /\ ids # {}
                /\ base = url.scheme \o Chars_scheme_sep \o url.netloc
                             \o Join(SubSeq(segs, 1, last), "/")
                /\ IsNonNegativeInteger(baseSegs[Len(baseSegs)])
                /\ Get(self[r].query_url) = base \o Chars_Query

\* No segment of the URL's path parses as an integer.
NoIntegerSegment ==
    \A j \in 1..Len(Split(url.path, "/")) : ~IntParses(Split(url.path, "/")[j])

\* C7: on a URL none of whose path segments parses as an integer the session
\* fails in validation with the ValueError, having issued no request.
C7_NoIntegerSegmentFailsFirst ==
    \A r \in Runs :
        NoIntegerSegment =>
            /\ pc[r] \in {"start", "failed"}
            /\ gets[r] = EmptyBag
            /\ ~IsSet(self[r].url)
            /\ pc[r] = "failed" => Get(exc[r]) = Exc("ValueError", "Unable to validate URL")

\* A session failed on a path of two segments or more, none an integer.
C7_Witness ==
    /\ NoIntegerSegment
    /\ Len(Split(url.path, "/")) >= 3
    /\ pc["conc"] = "failed"

\* A description response the claim calls a failure.
BadDescription(resp) ==
    \/ resp.status_code # 200
    \/ ParseDescription(resp).raised

\* A count response the claim calls a failure.
BadCount(resp) ==
    \/ resp.status_code # 200
    \/ ParseCount(resp).raised

\* C8: a session whose description or count request raises, returns a
\* non-200 response, or returns a body lacking a key read from it (or a
\* count that is no number) fails there: it goes on to no plan, no page
\* request and no feature collection.
C8_BadMetadataFailsSession ==
    [][\A r \in Runs :
        /\ (pc[r] = "description_received" /\ pc'[r] # pc[r]
              /\ BadDescription(Get(Get(metadata[r]).metadata_response)))
           => pc'[r] = "failed"
        /\ (pc[r] = "count_received" /\ pc'[r] # pc[r]
              /\ BadCount(Get(Get(metadata[r]).total_record_response)))
           => pc'[r] = "failed"
        /\ (pc[r] \in {"description_wait", "count_wait"} /\ pc'[r] # pc[r]
              /\ service'.answers[IF pc[r] = "count_wait" THEN CountRequest(r)
                                  ELSE DescriptionRequest(r)].raised)
           => pc'[r] = "failed"
        /\ (pc'[r] = "failed" /\ ~IsSet(self'[r].n_records))
           => /\ ~IsSet(self'[r].request_urls)
              /\ PageGets(r)' = {}
              /\ ~IsSet(self'[r].data)]_vars

\* C9: a session that returned has issued exactly one GET for each plan
\* entry, with that entry's offset and record count, and no other page GET.
C9_OneGetPerPlanEntry ==
    \A r \in Runs :
        pc[r] = "done" =>
            /\ \A k \in 1..Len(Plan(r)) :
                  /\ CopiesIn(PageRequest(r, k), gets[r]) = 1
                  /\ PageRequest(r, k).params.resultOffset = Plan(r)[k][1]
                  /\ PageRequest(r, k).params.resultRecordCount = Plan(r)[k][2]
                  /\ Cardinality({q \in PageGets(r) :
                        q.params.resultOffset = Plan(r)[k][1]}) = 1
            /\ \A q \in PageGets(r) :
                  /\ CopiesIn(q, gets[r]) = 1
                  /\ \E k \in 1..Len(Plan(r)) :
                        /\ q.params.resultOffset = Plan(r)[k][1]
                        /\ q.params.resultRecordCount = Plan(r)[k][2]
            /\ Cardinality(PageGets(r)) = Len(Plan(r))

\* Both sessions returned over a plan of two pages or more.
C9_Witness ==
    /\ pc["conc"] = "done" /\ pc["seq"] = "done"
    /\ Len(Plan("seq")) >= 2
    /\ Cardinality(PageGets("seq")) >= 2

\* C10: every page GET carries each of the nine query options with the
\* value the session holds for it, and resultOffset, resultRecordCount and
\* f=geojson.
C10_PageRequestCarriesEveryOption ==
    \A r \in Runs :
        \A q \in PageGets(r) :
            /\ DOMAIN q.params = OptionNames \cup {"resultOffset", "resultRecordCount", "f"}
            /\ \A n \in OptionNames :
                  /\ q.params[n] = Get(self[r].query)[n]
                  /\ n \in DOMAIN kwargs => q.params[n] = kwargs[n]
            /\ q.params.f = "geojson"

\* The exception names the count the plan could not be built from.
IdentifiesPlanInput(e, n_records) ==
    /\ e.type \in {"ValueError", "InvalidPlanInput"}
    /\ e.carries = n_records

\* A session that read a negative count issues no page request and does not
\* return.
NegativeCountIssuesNoPage ==
    \A r \in Runs :
        (IsSet(self[r].n_records) /\ Get(self[r].n_records) < 0)
        => PageGets(r) = {} /\ pc[r] # "done" /\ ~IsSet(self[r].data)

\* C11: a session that read a negative count fails when it builds the plan,
\* with an error that identifies the count; it holds no plan and issues no
\* page request.
C11_NegativeCountFailsPlanning ==
    \A r \in Runs :
        (IsSet(self[r].n_records) /\ Get(self[r].n_records) < 0 /\ pc[r] # "metadata")
        => /\ pc[r] = "failed"
           /\ IdentifiesPlanInput(Get(exc[r]), Get(self[r].n_records))
           /\ ~IsSet(self[r].request_urls)
           /\ PageGets(r) = {}

\* The metadata requests, and the page requests, a session has in flight.
MetadataInFlight(r) == {q \in wire[r] : "resultOffset" \notin DOMAIN q.params}
PagesInFlight(r) == {q \in wire[r] : "resultOffset" \in DOMAIN q.params}

\* The request was issued and has ended.
Completed(r, q) == CopiesIn(q, gets[r]) > 0 /\ q \notin wire[r]

\* C12: in either mode the count request is issued only after the
\* description request has ended; the plan is built, and any page request
\* issued, only after both have ended; the two are never in flight together.
C12_MetadataBeforePlanAndPages ==
    \A r \in Runs :
        /\ Cardinality(MetadataInFlight(r)) <= 1
        /\ IsSet(self[r].url) =>
              /\ CopiesIn(CountRequest(r), gets[r]) > 0
                    => Completed(r, DescriptionRequest(r))
              /\ (IsSet(self[r].request_urls) \/ PageGets(r) # {})
                    => /\ Completed(r, DescriptionRequest(r))
                       /\ Completed(r, CountRequest(r))
                       /\ IsSet(self[r].n_records)
        /\ PageGets(r) # {} => IsSet(self[r].url) /\ IsSet(self[r].request_urls)

\* The concurrent session has two page requests in flight.
C12_Witness ==
    /\ pc["conc"] = "fetching"
    /\ Cardinality(PagesInFlight("conc")) >= 2
    /\ MetadataInFlight("conc") = {}

\* C13: without concurrency a page request is issued only when the
\* requests of all earlier plan entries have returned, so the requests
\* issued are a prefix of the plan and at most one is in flight.
C13_SequentialOneAtATime ==
    \A r \in Runs :
        (~Concurrent(r) /\ IsSet(self[r].request_urls)) =>
            /\ Cardinality(PagesInFlight(r)) <= 1
            /\ \A k \in DOMAIN tasks[r] :
                  /\ tasks[r][k] # "queued" <=> CopiesIn(PageRequest(r, k), gets[r]) > 0
                  /\ tasks[r][k] = "running" <=> PageRequest(r, k) \in wire[r]
                  /\ tasks[r][k] # "queued" =>
                        \A j \in 1..(k - 1) :
                            tasks[r][j] = "returned" /\ Completed(r, PageRequest(r, j))
            /\ tasks[r] = <<>> => PageGets(r) = {}

\* The sequential session has its second page request in flight.
C13_Witness ==
    /\ pc["seq"] = "fetching"
    /\ Len(tasks["seq"]) >= 3
    /\ tasks["seq"][2] = "running"
    /\ tasks["seq"][3] = "queued"

\* The plan entries whose page call raised.
RaisedPages(r) == {k \in DOMAIN tasks[r] : tasks[r][k] = "raised"}

\* C16: without concurrency, once the call for a plan entry raised no call
\* for a later entry is issued; in either mode a session one of whose page
\* calls raised never merges and ends failed, without a feature collection.
C16_RaisedPageStopsSession ==
    \A r \in Runs :
        /\ ~Concurrent(r) =>
              \A k \in RaisedPages(r) : \A j \in DOMAIN tasks[r] : j > k =>
                  /\ tasks[r][j] = "queued"
                  /\ CopiesIn(PageRequest(r, j), gets[r]) = 0
        /\ RaisedPages(r) # {} =>
              /\ pc[r] \in {"fetching", "aborting", "failed"}
              /\ ~IsSet(self[r].data)
              /\ Ended(r) => pc[r] = "failed" /\ IsSet(exc[r])

\* Both sessions failed on the first page: the concurrent one had issued the
\* second request and got its response, the sequential one never issued it.
C16_Witness ==
    /\ pc["conc"] = "failed" /\ pc["seq"] = "failed"
    /\ Len(tasks["conc"]) >= 2 /\ Len(tasks["seq"]) >= 2
    /\ tasks["conc"][1] = "raised" /\ tasks["conc"][2] = "returned"
    /\ tasks["seq"][1] = "raised" /\ tasks["seq"][2] = "queued"

\* The output options of the command and, for each, the format written,
\* the default extension and the line echoed.
Targets ==
    {[option |-> "geojson", format |-> "GeoJSON", extension |-> Chars_geojson,
      text |-> "GeoJSON saved at"],
     [option |-> "shapefile", format |-> "Shapefile", extension |-> Chars_shp,
      text |-> "Shapefile saved at"],
     [option |-> "schema", format |-> "schema", extension |-> Chars_json,
      text |-> "Schema saved at"]}

\* The path the claim has the target written to.
ExpectedPath(path, extension) ==
    IF \E i \in 0..Len(path) :
          /\ Len(path) - i = Len(extension)
          /\ \A j \in 1..Len(extension) : LowerChar(path[i + j]) = extension[j]
    THEN path ELSE path \o extension

\* The paths echoed for a target.
EchoedPaths(r, t) ==
    {cli[r].echoed[i].value : i \in {j \in 1..Len(cli[r].echoed) : cli[r].echoed[j].text = t.text}}

\* The paths written for a target.
WrittenPaths(r, t) == {f.path : f \in {g \in cli[r].files : g.format = t.format}}

\* Target t of command r is as the claim says: written once, at the
\* expected path, and that path echoed.
TargetAsClaimed(r, t) ==
    IF IsSet(cli[r].args[t.option])
    THEN /\ WrittenPaths(r, t) = {ExpectedPath(Get(cli[r].args[t.option]), t.extension)}
         /\ EchoedPaths(r, t) = WrittenPaths(r, t)
    ELSE WrittenPaths(r, t) = {} /\ EchoedPaths(r, t) = {}

\* The GeoJSON and Shapefile targets of a command that ended are as the
\* claim says, and the schema file is written where it says.
GeojsonAndShapefileAsClaimed ==
    \A r \in Runs : cli[r].pc = "exited" =>
        /\ \A t \in {u \in Targets : u.option # "schema"} : TargetAsClaimed(r, t)
        /\ \A t \in {u \in Targets : u.option = "schema"} :
              IsSet(cli[r].args.schema) =>
                  WrittenPaths(r, t) = {ExpectedPath(Get(cli[r].args.schema), t.extension)}

\* C14: when the command has ended, each output target it was given has
\* been written to the path given, with the target's extension appended
\* exactly when the path does not end with it in any letter case, and the
\* path echoed for the target is the path written.
C14_EchoedPathIsWrittenPath ==
    \A r \in Runs : cli[r].pc = "exited" => \A t \in Targets : TargetAsClaimed(r, t)

\* The record count the command echoed.
EchoedCount(r) == cli[r].echoed[Len(cli[r].echoed)].value

\* C15: the record count the command echoes is the number of features in
\* the merged collection it fetched and exported.
C15_EchoedCountIsFeatureCount ==
    \A r \in Runs : cli[r].pc = "exited" => EchoedCount(r) = Len(MergedFeatures(r))

====
